---- MODULE Spec2Model ----
(***************************************************************************)
(* Musicalia avatar backend (Backend (Python)/avatar_ai_server.py).        *)
(*                                                                         *)
(* Texts are sequences of characters; a character is a one-element string. *)
(* Code points that cannot be written in a TLA+ string are named by a      *)
(* token: "a'" "e'" "i'" "o'" "u'" (acute), "a~" (tilde), "c," (cedilla),  *)
(* "a_grave" (U+00E0),                                                     *)
(* "BULLET" (U+2022), "ARROW" (U+2192), "LAQUO" (U+00AB), "STAR" (U+2605), *)
(* "EMOJI" (U+1F600), "VS16" (U+FE0F), "BACKTICK" (U+0060).                *)
(***************************************************************************)
EXTENDS Integers, Sequences, FiniteSets, TLC

\* ------------------------------------------------------------------------
\* Character classes of Python's re on str patterns
\* ------------------------------------------------------------------------

\* \s
Whitespace == {" ", "\n", "\t"}

\* \d
Digits == {"0", "1", "2", "3", "4", "5", "6", "7", "8", "9"}

UpperSeq ==
  <<"A", "B", "C", "D", "E", "F", "G", "H", "I", "J", "K", "L", "M",
    "N", "O", "P", "Q", "R", "S", "T", "U", "V", "W", "X", "Y", "Z">>

LowerSeq ==
  <<"a", "b", "c", "d", "e", "f", "g", "h", "i", "j", "k", "l", "m",
    "n", "o", "p", "q", "r", "s", "t", "u", "v", "w", "x", "y", "z">>

AccentedLetters == {"a'", "e'", "i'", "o'", "u'", "a~", "c,", "a_grave"}

Letters ==
  {UpperSeq[i] : i \in 1..26} \cup {LowerSeq[i] : i \in 1..26} \cup AccentedLetters

\* \w
WordChars == Letters \cup Digits \cup {"_"}

\* the class [.!?] of sentence_split
SentencePunct == {".", "!", "?"}

\* the class [-•*] of the bullet pattern
BulletChars == {"-", "BULLET", "*"}

\* the class [\.\)\-] of the numbered-list pattern
NumberPunct == {".", ")", "-"}

\* code points of the emoji_pattern ranges
EmojiChars == {"EMOJI", "STAR", "VS16"}

\* code points of the decorative-glyph class
GlyphChars == {"BULLET", "ARROW", "LAQUO", "STAR", "VS16"}

\* str.lower() on one character
LowerChar(c) ==
  IF \E i \in 1..26 : UpperSeq[i] = c
    THEN LowerSeq[CHOOSE i \in 1..26 : UpperSeq[i] = c]
    ELSE c

\* str.lower()
Lower(s) == [i \in 1..Len(s) |-> LowerChar(s[i])]

RECURSIVE LStrip(_)
LStrip(s) ==
  IF s # <<>> /\ Head(s) \in Whitespace THEN LStrip(Tail(s)) ELSE s

RECURSIVE RStrip(_)
RStrip(s) ==
  IF s # <<>> /\ s[Len(s)] \in Whitespace
    THEN RStrip(SubSeq(s, 1, Len(s) - 1))
    ELSE s

\* str.strip()
Strip(s) == RStrip(LStrip(s))

SetMin(S) == CHOOSE x \in S : \A y \in S : x <= y

\* the text s has the literal d at index i
StartsAt(s, i, d) ==
  /\ i >= 1
  /\ i + Len(d) - 1 <= Len(s)
  /\ \A k \in 1..Len(d) : s[i + k - 1] = d[k]

\* first index >= i whose character is not in S (Len(s) + 1 when none): a greedy S*
RECURSIVE SkipWhile(_, _, _)
SkipWhile(s, i, S) ==
  IF i <= Len(s) /\ s[i] \in S THEN SkipWhile(s, i + 1, S) ELSE i

\* ------------------------------------------------------------------------
\* Emotion analysis components
\* ------------------------------------------------------------------------

happy_words ==
  << <<"f", "e", "l", "i", "z">>,
     <<"c", "o", "n", "t", "e", "n", "t">>,
     <<"a", "l", "e", "g", "r", "e">>,
     <<"m", "a", "r", "a", "v", "i", "l", "h", "o", "s">>,
     <<"l", "i", "n", "d">>,
     <<"a", "d", "o", "r">>,
     <<"f", "a", "n", "t", "a'", "s", "t", "i", "c">>,
     <<"i", "m", "p", "o", "r", "t", "a", "n", "t">>,
     <<"c", "o", "n", "q", "u", "i", "s", "t", "a">>,
     <<"o", "r", "g", "u", "l", "h", "o">>,
     <<"v", "o", "z">>,
     <<"i", "n", "p", "i", "r", "a">>,
     <<"p", "r", "e'", "m", "i", "o">>,
     <<"a", "p", "l", "a", "u", "s", "o">>,
     <<"m", "u'", "s", "i", "c", "a">>,
     <<"c", "u", "l", "t", "u", "r", "a">>,
     <<"f", "a", "d", "o">>,
     <<"h", "i", "s", "t", "o'", "r", "i", "a">>,
     <<"t", "r", "a", "d", "i", "c,", "a~", "o">>,
     <<"a", "m", "o", "r">>,
     <<"c", "o", "r", "a", "c,", "a~", "o">>,
     <<"e", "m", "o", "c,", "a~", "o">> >>

sad_words ==
  << <<"t", "r", "i", "s", "t", "e">>,
     <<"l", "a", "m", "e", "n", "t">>,
     <<"i", "n", "f", "e", "l", "i", "z">>,
     <<"p", "e", "n", "a">>,
     <<"c", "h", "o", "r", "a", "r">>,
     <<"s", "a", "u", "d", "a", "d", "e">>,
     <<"f", "a", "l", "e", "c", "e", "u">>,
     <<"m", "o", "r", "r", "e", "u">>,
     <<"d", "e", "s", "a", "p", "a", "r", "e", "c">>,
     <<"p", "e", "r", "d">>,
     <<"s", "o", "l", "i", "d", "a~", "o">>,
     <<"d", "o", "r">>,
     <<"s", "o", "f", "r", "e", "r">>,
     <<"d", "e", "s", "i", "l", "u", "s", "a~", "o">>,
     <<"d", "e", "s", "a", "p", "o", "n", "t">>,
     <<"t", "r", "i", "s", "t", "e", "z", "a">>,
     <<"l", "u", "t", "o">>,
     <<"m", "e", "m", "o'", "r", "i", "a">>,
     <<"c", "o", "m", "p", "l", "i", "c", "a", "d">>,
     <<"d", "i", "f", "i'", "c", "i", "l">>,
     <<"d", "e", "s", "g", "o", "s", "t", "o">>,
     <<"d", "e", "s", "a", "p", "a", "r", "e", "c", "i", "m", "e", "n", "t", "o">>,
     <<"p", "e", "r", "d", "a">>,
     <<"v", "a", "z", "i", "o">>,
     <<"m", "e", "l", "a", "n", "c", "o", "l", "i", "a">> >>

\* re.split(r'(?<=[.!?])\s+', s) from index i, cur the piece being read
RECURSIVE SplitAfterPunct(_, _, _)
SplitAfterPunct(s, i, cur) ==
  IF i > Len(s) THEN <<cur>>
  ELSE IF i > 1 /\ s[i - 1] \in SentencePunct /\ s[i] \in Whitespace
    THEN <<cur>> \o SplitAfterPunct(s, SkipWhile(s, i, Whitespace), <<>>)
    ELSE SplitAfterPunct(s, i + 1, Append(cur, s[i]))

\* text.replace('.', '. ').replace('!', '! ').replace('?', '? ')
RECURSIVE SpaceAfterPunct(_)
SpaceAfterPunct(s) ==
  IF s = <<>> THEN <<>>
  ELSE IF Head(s) \in SentencePunct
    THEN <<Head(s), " ">> \o SpaceAfterPunct(Tail(s))
    ELSE <<Head(s)>> \o SpaceAfterPunct(Tail(s))

\* every piece stripped, the empty ones kept
StripAll(ps) == [i \in 1..Len(ps) |-> Strip(ps[i])]

\* [s.strip() for s in sentences if s.strip()]
RECURSIVE StripNonEmpty(_)
StripNonEmpty(ps) ==
  IF ps = <<>> THEN <<>>
  ELSE IF Strip(Head(ps)) # <<>>
    THEN <<Strip(Head(ps))>> \o StripNonEmpty(Tail(ps))
    ELSE StripNonEmpty(Tail(ps))

sentence_split(text) ==
  StripNonEmpty(SplitAfterPunct(SpaceAfterPunct(text), 1, <<>>))

\* the count of the whole words equal to word, scanning from index i
RECURSIVE CountWholeWords(_, _, _)
CountWholeWords(text, word, i) ==
  IF i > Len(text) THEN 0
  ELSE IF /\ (i = 1 \/ text[i - 1] \notin WordChars)
          /\ StartsAt(text, i, word)
          /\ SkipWhile(text, i + Len(word), WordChars) = i + Len(word)
    THEN 1 + CountWholeWords(text, word, i + Len(word))
    ELSE CountWholeWords(text, word, i + 1)

\* len(re.findall(r"\b" + word + r"\w*\b", text)), scanning from index i
RECURSIVE CountMatches(_, _, _)
CountMatches(text, word, i) ==
  IF i > Len(text) THEN 0
  ELSE IF /\ (i = 1 \/ text[i - 1] \notin WordChars)
          /\ StartsAt(text, i, word)
    THEN 1 + CountMatches(text, word, SkipWhile(text, i + Len(word), WordChars))
    ELSE CountMatches(text, word, i + 1)

\* the sum over the words of a list of their match counts
RECURSIVE ScoreOf(_, _)
ScoreOf(text, words) ==
  IF words = <<>> THEN 0
  ELSE CountMatches(text, Head(words), 1) + ScoreOf(text, Tail(words))

\* score["happy"] and score["sad"] of detect_emotion
happy_score(text) == LET lowered == Lower(text) IN ScoreOf(lowered, happy_words)

sad_score(text) == LET lowered == Lower(text) IN ScoreOf(lowered, sad_words)

\* a decision with a fourth code
DecideWide(happy, sad) ==
  IF happy = 0 /\ sad = 0 THEN 0
  ELSE IF happy > sad THEN 1
  ELSE 3

\* a decision that gives a tie to happy
DecideTieHappy(happy, sad) ==
  IF happy = 0 /\ sad = 0 THEN 0
  ELSE IF happy >= sad THEN 1
  ELSE 2

\* a decision that calls every tie neutral
DecideTieNeutral(happy, sad) ==
  IF happy = sad THEN 0
  ELSE IF happy > sad THEN 1
  ELSE 2

\* the decision of detect_emotion on the two scores
Decide(happy, sad) ==
  IF happy = 0 /\ sad = 0 THEN 0
  ELSE IF happy > sad THEN 1
  ELSE 2

detect_emotion(text) ==
  LET happy == happy_score(text)
      sad == sad_score(text)
  IN Decide(happy, sad)

\* the (sentence, emotion) pairs, in sentence order
analyze_text(text) ==
  LET sentences == sentence_split(text)
  IN [i \in 1..Len(sentences) |->
        [sentence |-> sentences[i], emotion |-> detect_emotion(sentences[i])]]

\* ------------------------------------------------------------------------
\* clean_text_for_tts
\* ------------------------------------------------------------------------

\* index of the closing delimiter d of a lazy d(.*?)d opened at i; 0 when none
\* ('.' does not match a newline)
CloseAt(s, i, d) ==
  LET from == i + Len(d)
      cands == {j \in from..Len(s) :
                  /\ StartsAt(s, j, d)
                  /\ \A k \in from..(j - 1) : s[k] # "\n"}
  IN IF cands = {} THEN 0 ELSE SetMin(cands)

\* re.sub(d(.*?)d, r"\1", s) from index i
RECURSIVE SubPaired(_, _, _)
SubPaired(s, i, d) ==
  IF i > Len(s) THEN <<>>
  ELSE IF StartsAt(s, i, d) /\ CloseAt(s, i, d) # 0
    THEN SubSeq(s, i + Len(d), CloseAt(s, i, d) - 1)
           \o SubPaired(s, CloseAt(s, i, d) + Len(d), d)
    ELSE <<s[i]>> \o SubPaired(s, i + 1, d)

\* index of the closing underscore of _([^_]+)_ opened at i; 0 when none
UnderscoreClose(s, i) ==
  LET j == SkipWhile(s, i + 1, {s[k] : k \in 1..Len(s)} \ {"_"})
  IN IF j > i + 1 /\ j <= Len(s) THEN j ELSE 0

\* re.sub(r"_([^_]+)_", r"\1", s) from index i
RECURSIVE SubUnderscore(_, _)
SubUnderscore(s, i) ==
  IF i > Len(s) THEN <<>>
  ELSE IF s[i] = "_" /\ UnderscoreClose(s, i) # 0
    THEN SubSeq(s, i + 1, UnderscoreClose(s, i) - 1)
           \o SubUnderscore(s, UnderscoreClose(s, i) + 1)
    ELSE <<s[i]>> \o SubUnderscore(s, i + 1)

\* ^ under re.MULTILINE
AtLineStart(s, i) == i = 1 \/ s[i - 1] = "\n"

\* end (first index after) of a match of \s*[-BULLET*]+\s* at i; 0 when none
BulletEnd(s, i) ==
  LET k == SkipWhile(s, i, Whitespace)
      m == SkipWhile(s, k, BulletChars)
  IN IF m > k THEN SkipWhile(s, m, Whitespace) ELSE 0

\* re.sub(r"^\s*[-BULLET*]+\s*", "", s, flags=re.MULTILINE) from index i
RECURSIVE SubBullets(_, _)
SubBullets(s, i) ==
  IF i > Len(s) THEN <<>>
  ELSE IF AtLineStart(s, i) /\ BulletEnd(s, i) # 0
    THEN SubBullets(s, BulletEnd(s, i))
    ELSE <<s[i]>> \o SubBullets(s, i + 1)

\* end of a match of \s*\d+[\.\)\-]+\s* at i; 0 when none
NumberEnd(s, i) ==
  LET k == SkipWhile(s, i, Whitespace)
      m == SkipWhile(s, k, Digits)
      p == SkipWhile(s, m, NumberPunct)
  IN IF m > k /\ p > m THEN SkipWhile(s, p, Whitespace) ELSE 0

\* re.sub(r"^\s*\d+[\.\)\-]+\s*", "", s, flags=re.MULTILINE) from index i
RECURSIVE SubNumbers(_, _)
SubNumbers(s, i) ==
  IF i > Len(s) THEN <<>>
  ELSE IF AtLineStart(s, i) /\ NumberEnd(s, i) # 0
    THEN SubNumbers(s, NumberEnd(s, i))
    ELSE <<s[i]>> \o SubNumbers(s, i + 1)

\* re.sub("[S]+", "", s) and re.sub("[S]", "", s)
RECURSIVE RemoveChars(_, _)
RemoveChars(s, S) ==
  IF s = <<>> THEN <<>>
  ELSE IF Head(s) \in S THEN RemoveChars(Tail(s), S)
  ELSE <<Head(s)>> \o RemoveChars(Tail(s), S)

\* re.sub("[S]+", " ", s) from index i
RECURSIVE CollapseRuns(_, _, _)
CollapseRuns(s, i, S) ==
  IF i > Len(s) THEN <<>>
  ELSE IF s[i] \in S
    THEN <<" ">> \o CollapseRuns(s, SkipWhile(s, i, S), S)
    ELSE <<s[i]>> \o CollapseRuns(s, i + 1, S)

clean_text_for_tts(text) ==
  LET t1 == SubPaired(text, 1, <<"*", "*">>)
      t2 == SubPaired(t1, 1, <<"*">>)
      t3 == SubUnderscore(t2, 1)
      t4 == SubPaired(t3, 1, <<"BACKTICK">>)
      t5 == SubBullets(t4, 1)
      t6 == SubNumbers(t5, 1)
      t7 == RemoveChars(t6, EmojiChars)
      t8 == RemoveChars(t7, GlyphChars)
      t9 == CollapseRuns(t8, 1, {"\n"})
  IN Strip(CollapseRuns(t9, 1, Whitespace))

\* ------------------------------------------------------------------------
\* The server: module globals, the upstream services, the request handlers
\* ------------------------------------------------------------------------

\* request-handler threads of the server
Workers == {"w1", "w2"}

\* requests the server receives in one run
MaxRequests == 3

\* streaming events (text created, text delta) of one generation run
MaxEvents == 3

\* None, for the identifiers (vector store, assistant, thread ids are 1, 2, ...)
None == 0

\* None, for the client (a client is identified by its non-blank API key)
NoClient == <<>>

\* the decimal digits, as str writes them
DigitSeq == <<"0", "1", "2", "3", "4", "5", "6", "7", "8", "9">>

\* the API key of the n-th request: every request carries a key of its own
ApiKey(n) == <<"k", DigitSeq[n + 1]>>

\* the bodies the n-th request may carry: no JSON, JSON without api_key, an empty
\* key, a blank key, a key
InitBodies(n) ==
  {[json |-> FALSE, has_key |-> FALSE, api_key |-> <<>>],
   [json |-> TRUE, has_key |-> FALSE, api_key |-> <<>>],
   [json |-> TRUE, has_key |-> TRUE, api_key |-> <<>>],
   [json |-> TRUE, has_key |-> TRUE, api_key |-> <<" ">>],
   [json |-> TRUE, has_key |-> TRUE, api_key |-> ApiKey(n)]}

\* texts the transcription service returns
Transcripts == {<<>>, <<" ", "\n">>, <<" ", "o", "i", " ">>}

\* text fragments (delta.value) the generation stream delivers, by number
Fragments ==
  << <<"A", ".", "V", "o", "z", "!", "D", "o", "r", "?">>,
     <<"*", "*">> >>

\* the text-created event in a stream's history
TextCreated == 0

VARIABLES
  client,                        \* global client (its API key) or NoClient
  vector_store,                  \* global vector_store (its id) or None
  assistant,                     \* global assistant (its id) or None
  thread,                        \* global thread (its id) or None
  full_response,                 \* global full_response
  ai_initialized_successfully,   \* global flag
  upStores,        \* upstream vector stores named "Musicalia Fado Archive", in list order
  upAssistants,    \* upstream assistants named "Musicalia", in list order
  indexed,         \* upstream vector stores holding the indexed Info.pdf
  nThreads,        \* upstream threads created so far
  fileExists,      \* os.path.exists("Info.pdf")
  threaded,        \* whether the server handles requests in concurrent threads
  nReq,            \* requests received so far
  pc,              \* where each worker is in its handler
  req,             \* the request each worker is handling
  calls,           \* the external calls the worker made for its request, in order
  ok,              \* the value initialize_ai_components returned to the worker
  tool_cfg,        \* the worker's tool_resources_config: the vector store id in it, or None
  user_transcription,
  ai_text_to_speak,
  emotion_codes_list,
  events,          \* the events the worker's generation stream delivered, in order
  done,            \* the request the last step answered, if any: the request, the
                   \* response, the calls made for it, whether an exception was caught
  given_text,      \* the argument the text functions are applied to
  stage,           \* which text function was applied to it last ("" when none is)
  cleaned_text,    \* what clean_text_for_tts returned
  split_sentences, \* what sentence_split returned
  emotion_code     \* what detect_emotion returned

globals ==
  <<client, vector_store, assistant, thread, full_response, ai_initialized_successfully>>

session == <<client, vector_store, assistant, thread, ai_initialized_successfully>>

upstream == <<upStores, upAssistants, indexed, nThreads>>

\* the argument and the results of the text functions called on their own
pure == <<given_text, stage, cleaned_text, split_sentences, emotion_code>>

\* what no request handler changes
config == <<fileExists, threaded, pure>>

locals ==
  <<ok, tool_cfg, user_transcription, ai_text_to_speak, emotion_codes_list, events>>

vars == <<globals, upstream, config, nReq, pc, req, calls, locals, done>>

NoResponse == [status |-> 0, mimetype |-> "", body |-> "", emotion_header |-> <<>>]

\* jsonify(...), status
Json(status, message) ==
  [status |-> status, mimetype |-> "application/json", body |-> message,
   emotion_header |-> <<>>]

\* Response(body, mimetype='audio/mpeg') with the X-Musicalia-Emotion-Codes header
Audio(status, body, header) ==
  [status |-> status, mimetype |-> "audio/mpeg", body |-> body,
   emotion_header |-> header]

NoRequest ==
  [kind |-> "", json |-> FALSE, has_key |-> FALSE, api_key |-> <<>>, has_file |-> FALSE,
   said |-> <<>>]

\* the step answered no request
NoAnswer == [req |-> NoRequest, resp |-> NoResponse, calls |-> <<>>, raised |-> FALSE]

Start ==
  /\ client = NoClient
  /\ vector_store = None
  /\ assistant = None
  /\ thread = None
  /\ full_response = <<>>
  /\ ai_initialized_successfully = FALSE
  /\ \E s \in {<<>>, <<1>>} :
       /\ upStores = s
       /\ upAssistants \in
            {<<>>,
             <<[id |-> 1, instructions_ok |-> FALSE, vector_store_ids |-> {}]>>,
             <<[id |-> 1, instructions_ok |-> TRUE,
                vector_store_ids |-> {s[i] : i \in 1..Len(s)}]>>}
  /\ indexed = {}
  /\ nThreads = 0
  /\ fileExists \in BOOLEAN
  /\ nReq = 0
  /\ pc = [w \in Workers |-> "idle"]
  /\ req = [w \in Workers |-> NoRequest]
  /\ calls = [w \in Workers |-> <<>>]
  /\ ok = [w \in Workers |-> FALSE]
  /\ tool_cfg = [w \in Workers |-> None]
  /\ user_transcription = [w \in Workers |-> <<>>]
  /\ ai_text_to_speak = [w \in Workers |-> <<>>]
  /\ emotion_codes_list = [w \in Workers |-> <<>>]
  /\ events = [w \in Workers |-> <<>>]
  /\ done = NoAnswer
  /\ cleaned_text = <<>>
  /\ split_sentences = <<>>
  /\ emotion_code = 0

\* app.run(host="0.0.0.0", port=port): the development server is threaded; the
\* account upstream is new and Info.pdf is there
Init ==
  /\ Start
  /\ given_text = <<>>
  /\ stage = ""
  /\ threaded = TRUE
  /\ upStores = <<>>
  /\ upAssistants = <<>>
  /\ fileExists

\* the server started with threaded=False: one request at a time
InitSeq == Start /\ given_text = <<>> /\ stage = "" /\ threaded = FALSE

\* a worker takes the next request: the first worker when it is free, the second only
\* while the first is busy (the workers are interchangeable) and the server is threaded
Accept(w) ==
  /\ pc[w] = "idle"
  /\ nReq < MaxRequests
  /\ w = "w1" \/ (threaded /\ pc["w1"] # "idle")
  /\ nReq' = nReq + 1
  /\ UNCHANGED config

\* the worker answers request r with response rsp after the calls cs, ex telling
\* whether an except clause was taken, and is free again
Answer(w, r, rsp, cs, ex) ==
  /\ done' = [req |-> r, resp |-> rsp, calls |-> cs, raised |-> ex]
  /\ pc' = [pc EXCEPT ![w] = "idle"]
  /\ req' = [req EXCEPT ![w] = NoRequest]
  /\ calls' = [calls EXCEPT ![w] = <<>>]
  /\ ok' = [ok EXCEPT ![w] = FALSE]
  /\ tool_cfg' = [tool_cfg EXCEPT ![w] = None]
  /\ user_transcription' = [user_transcription EXCEPT ![w] = <<>>]
  /\ ai_text_to_speak' = [ai_text_to_speak EXCEPT ![w] = <<>>]
  /\ emotion_codes_list' = [emotion_codes_list EXCEPT ![w] = <<>>]
  /\ events' = [events EXCEPT ![w] = <<>>]

\* the worker returns a response without a further call
Return(w, rsp) == Answer(w, req[w], rsp, calls[w], FALSE)

\* the worker makes the external call and returns a response
CallReturn(w, name, rsp) == Answer(w, req[w], rsp, Append(calls[w], name), FALSE)

\* the use of a global that is None raises, and the worker returns the response of
\* the except clause
Raise(w, rsp) == Answer(w, req[w], rsp, calls[w], TRUE)

\* the external call raises, and the worker returns the response of the except clause
CallRaise(w, name, rsp) == Answer(w, req[w], rsp, Append(calls[w], name), TRUE)

\* the worker goes on to the next external call
Goto(w, label) ==
  /\ pc' = [pc EXCEPT ![w] = label]
  /\ done' = NoAnswer
  /\ UNCHANGED req

\* the worker makes an external call
Call(w, name) == calls' = [calls EXCEPT ![w] = Append(@, name)]

\* ------------------------------------------------------------------------
\* POST /initialize_ai
\* ------------------------------------------------------------------------

InitRequest(b) ==
  [kind |-> "initialize", json |-> b.json, has_key |-> b.has_key,
   api_key |-> b.api_key, has_file |-> FALSE, said |-> <<>>]

\* the check left out: what an endpoint without it would do
AlreadyInitializedNever == FALSE

\* the check with the flag left out: a client alone counts as initialized
AlreadyInitializedClientOnly == client # NoClient

\* ai_initialized_successfully and client is not None
AlreadyInitialized == ai_initialized_successfully /\ client # NoClient

\* an endpoint that does not strip the key before it tests it
InitializeStartNoStrip(w, b) ==
  /\ Accept(w)
  /\ UNCHANGED <<vector_store, assistant, thread, full_response,
                 ai_initialized_successfully, upstream>>
  /\ IF AlreadyInitialized
       THEN /\ Answer(w, InitRequest(b),
                      Json(200, "AI components already initialized"), <<>>, FALSE)
            /\ UNCHANGED client
     ELSE IF ~b.json \/ ~b.has_key
       THEN /\ Answer(w, InitRequest(b), Json(400, "API key not provided"), <<>>,
                      FALSE)
            /\ UNCHANGED client
     ELSE IF b.api_key = <<>>
       THEN /\ Answer(w, InitRequest(b), Json(400, "Empty API key received"), <<>>,
                      FALSE)
            /\ UNCHANGED client
     ELSE /\ client' = b.api_key
          /\ pc' = [pc EXCEPT ![w] = "probe"]
          /\ req' = [req EXCEPT ![w] = InitRequest(b)]
          /\ done' = NoAnswer
          /\ UNCHANGED <<calls, locals>>

\* initialize_ai_endpoint up to the key probe: the already-initialized check, the
\* validation of the body, and initialize_ai_components up to client = OpenAI(api_key)
InitializeStart(w, b) ==
  /\ Accept(w)
  /\ UNCHANGED <<vector_store, assistant, thread, full_response,
                 ai_initialized_successfully, upstream>>
  /\ IF AlreadyInitialized
       THEN /\ Answer(w, InitRequest(b),
                      Json(200, "AI components already initialized"), <<>>, FALSE)
            /\ UNCHANGED client
     ELSE IF ~b.json \/ ~b.has_key
       THEN /\ Answer(w, InitRequest(b), Json(400, "API key not provided"), <<>>,
                      FALSE)
            /\ UNCHANGED client
     ELSE IF Strip(b.api_key) = <<>>
       THEN /\ Answer(w, InitRequest(b), Json(400, "Empty API key received"), <<>>,
                      FALSE)
            /\ UNCHANGED client
     ELSE /\ client' = b.api_key
          /\ pc' = [pc EXCEPT ![w] = "probe"]
          /\ req' = [req EXCEPT ![w] = InitRequest(b)]
          /\ done' = NoAnswer
          /\ UNCHANGED <<calls, locals>>

\* POST /initialize_ai arrives with one of the bodies of the next request
InitializeAI(w) == \E b \in InitBodies(nReq + 1) : InitializeStart(w, b)

\* a failed key probe that leaves the client in place
ProbeFailedKeepsClient(w) ==
  /\ ok' = [ok EXCEPT ![w] = FALSE]
  /\ Goto(w, "set_flag")
  /\ UNCHANGED <<client, vector_store, assistant, thread>>

\* initialize_ai_components returns False after the key probe failed: the client
\* alone is reset
ProbeFailed(w) ==
  /\ client' = NoClient
  /\ ok' = [ok EXCEPT ![w] = FALSE]
  /\ Goto(w, "set_flag")
  /\ UNCHANGED <<vector_store, assistant, thread>>

\* an except clause that forgets the assistant
InitFailedKeepsAssistant(w) ==
  /\ client' = NoClient
  /\ vector_store' = None
  /\ thread' = None
  /\ ok' = [ok EXCEPT ![w] = FALSE]
  /\ Goto(w, "set_flag")
  /\ UNCHANGED assistant

\* the except clause of initialize_ai_components: every global is reset
InitFailed(w) ==
  /\ client' = NoClient
  /\ vector_store' = None
  /\ assistant' = None
  /\ thread' = None
  /\ ok' = [ok EXCEPT ![w] = FALSE]
  /\ Goto(w, "set_flag")

\* client.models.list()
KeyProbe(w) ==
  /\ pc[w] = "probe"
  /\ UNCHANGED <<full_response, ai_initialized_successfully, upstream, config, nReq,
                 tool_cfg, user_transcription, ai_text_to_speak, emotion_codes_list,
                 events>>
  /\ IF client = NoClient
       THEN ProbeFailed(w) /\ UNCHANGED calls
       ELSE /\ Call(w, "models.list")
            /\ \/ /\ Goto(w, "vs_list")
                  /\ UNCHANGED <<client, vector_store, assistant, thread, ok>>
               \/ ProbeFailed(w)

\* a resolution that does not look for the store by name and always creates one
VectorStoreListAlwaysCreates(w) ==
  /\ pc[w] = "vs_list"
  /\ UNCHANGED <<full_response, ai_initialized_successfully, upstream, config, nReq,
                 tool_cfg, user_transcription, ai_text_to_speak, emotion_codes_list,
                 events>>
  /\ IF client = NoClient
       THEN InitFailed(w) /\ UNCHANGED calls
       ELSE /\ Call(w, "vector_stores.list")
            /\ \/ /\ Goto(w, "vs_create")
                  /\ UNCHANGED <<client, vector_store, assistant, thread, ok>>
               \/ InitFailed(w)

\* a resolution that uploads the document into a store it found without one
VectorStoreListFillsFound(w) ==
  /\ pc[w] = "vs_list"
  /\ UNCHANGED <<full_response, ai_initialized_successfully, upstream, config, nReq,
                 tool_cfg, user_transcription, ai_text_to_speak, emotion_codes_list,
                 events>>
  /\ IF client = NoClient
       THEN InitFailed(w) /\ UNCHANGED calls
       ELSE /\ Call(w, "vector_stores.list")
            /\ \/ /\ upStores # <<>>
                  /\ vector_store' = Head(upStores)
                  /\ Goto(w, IF fileExists /\ Head(upStores) \notin indexed
                               THEN "upload" ELSE "asst_list")
                  /\ UNCHANGED <<client, assistant, thread, ok>>
               \/ /\ upStores = <<>>
                  /\ Goto(w, "vs_create")
                  /\ UNCHANGED <<client, vector_store, assistant, thread, ok>>
               \/ InitFailed(w)

\* client.vector_stores.list() and the search for the store by name
VectorStoreList(w) ==
  /\ pc[w] = "vs_list"
  /\ UNCHANGED <<full_response, ai_initialized_successfully, upstream, config, nReq,
                 tool_cfg, user_transcription, ai_text_to_speak, emotion_codes_list,
                 events>>
  /\ IF client = NoClient
       THEN InitFailed(w) /\ UNCHANGED calls
       ELSE /\ Call(w, "vector_stores.list")
            /\ \/ /\ upStores # <<>>
                  /\ vector_store' = Head(upStores)
                  /\ Goto(w, "asst_list")
                  /\ UNCHANGED <<client, assistant, thread, ok>>
               \/ /\ upStores = <<>>
                  /\ Goto(w, "vs_create")
                  /\ UNCHANGED <<client, vector_store, assistant, thread, ok>>
               \/ InitFailed(w)

\* client.vector_stores.create(name=...)
VectorStoreCreate(w) ==
  /\ pc[w] = "vs_create"
  /\ UNCHANGED <<full_response, ai_initialized_successfully, upAssistants, indexed,
                 nThreads, config, nReq, tool_cfg, user_transcription,
                 ai_text_to_speak, emotion_codes_list, events>>
  /\ IF client = NoClient
       THEN InitFailed(w) /\ UNCHANGED <<calls, upStores>>
       ELSE /\ Call(w, "vector_stores.create")
            /\ \/ /\ upStores' = <<Len(upStores) + 1>> \o upStores
                  /\ vector_store' = Len(upStores) + 1
                  /\ Goto(w, IF fileExists THEN "upload" ELSE "asst_list")
                  /\ UNCHANGED <<client, assistant, thread, ok>>
               \/ InitFailed(w) /\ UNCHANGED upStores

\* client.vector_stores.file_batches.upload_and_poll(...) inside its own try: the
\* batch ends completed, or ends in another status, or the call raises (as does the
\* use of a global that is None) and the except clause of the upload is entered
FileUpload(w) ==
  /\ pc[w] = "upload"
  /\ UNCHANGED <<globals, upStores, upAssistants, nThreads, config, nReq, locals>>
  /\ IF client = NoClient \/ vector_store = None
       THEN Goto(w, "upload_failed") /\ UNCHANGED <<calls, indexed>>
       ELSE /\ Call(w, "file_batches.upload_and_poll")
            /\ \/ indexed' = indexed \cup {vector_store} /\ Goto(w, "asst_list")
               \/ UNCHANGED indexed /\ Goto(w, "asst_list")
               \/ UNCHANGED indexed /\ Goto(w, "upload_failed")

\* except Exception as e of the upload: the error is printed and the sequence goes
\* on to the assistant
UploadFailed(w) ==
  /\ pc[w] = "upload_failed"
  /\ UNCHANGED <<globals, upstream, config, nReq, calls, locals>>
  /\ Goto(w, "asst_list")

\* tool_resources left empty: a persona bound to no vector store
SentNoStoreIds(w) == {}

\* the tool_resources the code sends: tool_resources_config if vector_store else {}
SentStoreIds(w) ==
  IF vector_store # None /\ tool_cfg[w] # None THEN {tool_cfg[w]} ELSE {}

\* a comparison of the instructions alone
NeedsUpdateInstructionsOnly(a) == ~a.instructions_ok

\* needs_update of the assistant found upstream
NeedsUpdate(a) ==
  \/ ~a.instructions_ok
  \/ vector_store # None /\ vector_store \notin a.vector_store_ids
  \/ vector_store = None /\ a.vector_store_ids # {}

\* client.beta.assistants.list(), the search for the assistant by name, and the
\* comparison of the one found with the expected instructions and vector store
AssistantList(w) ==
  /\ pc[w] = "asst_list"
  /\ UNCHANGED <<full_response, ai_initialized_successfully, upstream, config, nReq,
                 user_transcription, ai_text_to_speak, emotion_codes_list, events>>
  /\ IF client = NoClient
       THEN InitFailed(w) /\ UNCHANGED <<calls, tool_cfg>>
       ELSE /\ Call(w, "assistants.list")
            /\ \/ /\ upAssistants # <<>>
                  /\ assistant' = Head(upAssistants).id
                  /\ tool_cfg' = [tool_cfg EXCEPT ![w] = vector_store]
                  /\ Goto(w, IF NeedsUpdate(Head(upAssistants))
                               THEN "asst_update" ELSE "thread_create")
                  /\ UNCHANGED <<client, vector_store, thread, ok>>
               \/ /\ upAssistants = <<>>
                  /\ tool_cfg' = [tool_cfg EXCEPT ![w] = vector_store]
                  /\ Goto(w, "asst_create")
                  /\ UNCHANGED <<client, vector_store, assistant, thread, ok>>
               \/ InitFailed(w) /\ UNCHANGED tool_cfg

\* client.beta.assistants.update(assistant_id=assistant.id, ...)
AssistantUpdate(w) ==
  /\ pc[w] = "asst_update"
  /\ UNCHANGED <<full_response, ai_initialized_successfully, upStores, indexed,
                 nThreads, config, nReq, tool_cfg, user_transcription,
                 ai_text_to_speak, emotion_codes_list, events>>
  /\ IF client = NoClient \/ assistant = None
       THEN InitFailed(w) /\ UNCHANGED <<calls, upAssistants>>
       ELSE /\ Call(w, "assistants.update")
            /\ \/ /\ upAssistants' =
                       [i \in 1..Len(upAssistants) |->
                          IF upAssistants[i].id = assistant
                            THEN [id |-> assistant, instructions_ok |-> TRUE,
                                  vector_store_ids |-> SentStoreIds(w)]
                            ELSE upAssistants[i]]
                  /\ Goto(w, "thread_create")
                  /\ UNCHANGED <<client, vector_store, assistant, thread, ok>>
               \/ InitFailed(w) /\ UNCHANGED upAssistants

\* client.beta.assistants.create(name=..., instructions=..., tool_resources=...)
AssistantCreate(w) ==
  /\ pc[w] = "asst_create"
  /\ UNCHANGED <<full_response, ai_initialized_successfully, upStores, indexed,
                 nThreads, config, nReq, tool_cfg, user_transcription,
                 ai_text_to_speak, emotion_codes_list, events>>
  /\ IF client = NoClient
       THEN InitFailed(w) /\ UNCHANGED <<calls, upAssistants>>
       ELSE /\ Call(w, "assistants.create")
            /\ \/ /\ upAssistants' =
                       <<[id |-> Len(upAssistants) + 1, instructions_ok |-> TRUE,
                          vector_store_ids |-> SentStoreIds(w)]>> \o upAssistants
                  /\ assistant' = Len(upAssistants) + 1
                  /\ Goto(w, "thread_create")
                  /\ UNCHANGED <<client, vector_store, thread, ok>>
               \/ InitFailed(w) /\ UNCHANGED upAssistants

\* a thread creation that keeps the thread already held
ThreadCreateKeepsHeld(w) ==
  /\ pc[w] = "thread_create"
  /\ UNCHANGED <<full_response, ai_initialized_successfully, upStores, upAssistants,
                 indexed, config, nReq, tool_cfg, user_transcription,
                 ai_text_to_speak, emotion_codes_list, events>>
  /\ IF client = NoClient
       THEN InitFailed(w) /\ UNCHANGED <<calls, nThreads>>
     ELSE IF thread # None
       THEN /\ ok' = [ok EXCEPT ![w] = TRUE]
            /\ Goto(w, "set_flag")
            /\ UNCHANGED <<client, vector_store, assistant, thread, calls, nThreads>>
     ELSE /\ Call(w, "threads.create")
          /\ \/ /\ nThreads' = nThreads + 1
                /\ thread' = nThreads + 1
                /\ ok' = [ok EXCEPT ![w] = TRUE]
                /\ Goto(w, "set_flag")
                /\ UNCHANGED <<client, vector_store, assistant>>
             \/ InitFailed(w) /\ UNCHANGED nThreads

\* client.beta.threads.create(), and return True
ThreadCreate(w) ==
  /\ pc[w] = "thread_create"
  /\ UNCHANGED <<full_response, ai_initialized_successfully, upStores, upAssistants,
                 indexed, config, nReq, tool_cfg, user_transcription,
                 ai_text_to_speak, emotion_codes_list, events>>
  /\ IF client = NoClient
       THEN InitFailed(w) /\ UNCHANGED <<calls, nThreads>>
       ELSE /\ Call(w, "threads.create")
            /\ \/ /\ nThreads' = nThreads + 1
                  /\ thread' = nThreads + 1
                  /\ ok' = [ok EXCEPT ![w] = TRUE]
                  /\ Goto(w, "set_flag")
                  /\ UNCHANGED <<client, vector_store, assistant>>
               \/ InitFailed(w) /\ UNCHANGED nThreads

\* an endpoint that leaves the flag false whatever initialize_ai_components returned
SetFlagFalse(w) ==
  /\ pc[w] = "set_flag"
  /\ UNCHANGED <<client, vector_store, assistant, thread, full_response, upstream,
                 config, nReq>>
  /\ ai_initialized_successfully' = FALSE
  /\ IF ok[w] THEN Return(w, Json(200, "AI initialized successfully"))
              ELSE Raise(w, Json(500, "AI initialization failed on server"))

\* initialize_ai_endpoint after initialize_ai_components returned: the flag is set

\* from the returned value, and the response follows
SetFlag(w) ==
  /\ pc[w] = "set_flag"
  /\ UNCHANGED <<client, vector_store, assistant, thread, full_response, upstream,
                 config, nReq>>
  /\ ai_initialized_successfully' = ok[w]
  /\ IF ok[w] THEN Return(w, Json(200, "AI initialized successfully"))
              ELSE Raise(w, Json(500, "AI initialization failed on server"))

\* ------------------------------------------------------------------------
\* POST /interact_audio
\* ------------------------------------------------------------------------

\* the audio of a request: none, or a file and what the transcription hears in it
Audios ==
  {[has_file |-> FALSE, said |-> <<>>]}
    \cup {[has_file |-> TRUE, said |-> text] : text \in Transcripts}

InteractRequest(a) ==
  [kind |-> "interact", json |-> FALSE, has_key |-> FALSE, api_key |-> <<>>,
   has_file |-> a.has_file, said |-> a.said]

\* ",".join(map(str, codes))
RECURSIVE JoinCodes(_)
JoinCodes(codes) ==
  IF codes = <<>> THEN <<>>
  ELSE IF Len(codes) = 1 THEN <<DigitSeq[codes[1] + 1]>>
  ELSE <<DigitSeq[codes[1] + 1], ",">> \o JoinCodes(Tail(codes))

\* a failure answer that carries audio bytes
ErrorResponseWithAudio == Audio(500, "bytes", <<"0">>)

\* the endpoint's answer when process_interaction_and_speak returned no audio
ErrorResponse == Audio(500, "", <<"0">>)

\* the endpoint's answer to an exception
InternalError == Json(500, "Internal server error")

\* an empty transcription answered as a failure
EmptyResponseFailure == Audio(500, "", <<"0">>)

\* the endpoint's answer to an empty transcription
EmptyResponse == Audio(200, "", <<"0">>)

\* the guard of process_interaction_and_speak
ComponentsReady ==
  /\ ai_initialized_successfully
  /\ client # NoClient
  /\ assistant # None
  /\ thread # None

\* the gate left open
NotInitializedNever == FALSE

\* not ai_initialized_successfully or not client
NotInitialized == ~ai_initialized_successfully \/ client = NoClient

\* interact_audio_endpoint up to the transcription call
InteractStart(w, a) ==
  /\ Accept(w)
  /\ UNCHANGED <<globals, upstream>>
  /\ IF NotInitialized
       THEN Answer(w, InteractRequest(a),
                   Json(403, "AI not initialized. Send API key to /initialize_ai first."),
                   <<>>, FALSE)
     ELSE IF ~a.has_file
       THEN Answer(w, InteractRequest(a), Json(400, "No audio file provided"), <<>>,
                   FALSE)
     ELSE /\ pc' = [pc EXCEPT ![w] = "transcribe"]
          /\ req' = [req EXCEPT ![w] = InteractRequest(a)]
          /\ done' = NoAnswer
          /\ UNCHANGED <<calls, locals>>

\* a turn that does not empty full_response when it starts
TranscribeKeepsBuffer(w) ==
  /\ pc[w] = "transcribe"
  /\ UNCHANGED <<session, upstream, config, nReq, full_response>>
  /\ IF client = NoClient
       THEN Raise(w, InternalError)
       ELSE \/ CallRaise(w, "transcriptions.create", InternalError)
            \/ LET text == Strip(req[w].said)
               IN IF text = <<>>
                    THEN CallReturn(w, "transcriptions.create", EmptyResponse)
                  ELSE IF ~ComponentsReady
                    THEN CallReturn(w, "transcriptions.create", ErrorResponse)
                  ELSE /\ Call(w, "transcriptions.create")
                       /\ user_transcription' = [user_transcription EXCEPT ![w] = text]
                       /\ Goto(w, "append")
                       /\ UNCHANGED <<ok, tool_cfg, ai_text_to_speak,
                                      emotion_codes_list, events>>

\* client.audio.transcriptions.create(...), the empty-transcription answer, and
\* process_interaction_and_speak up to the message it adds to the thread
Transcribe(w) ==
  /\ pc[w] = "transcribe"
  /\ UNCHANGED <<session, upstream, config, nReq>>
  /\ IF client = NoClient
       THEN Raise(w, InternalError) /\ UNCHANGED full_response
       ELSE \/ /\ CallRaise(w, "transcriptions.create", InternalError)
               /\ UNCHANGED full_response
            \/ LET text == Strip(req[w].said)
               IN IF text = <<>>
                    THEN /\ CallReturn(w, "transcriptions.create", EmptyResponse)
                         /\ UNCHANGED full_response
                  ELSE IF ~ComponentsReady
                    THEN /\ CallReturn(w, "transcriptions.create", ErrorResponse)
                         /\ UNCHANGED full_response
                  ELSE /\ Call(w, "transcriptions.create")
                       /\ user_transcription' = [user_transcription EXCEPT ![w] = text]
                       /\ full_response' = <<>>
                       /\ Goto(w, "append")
                       /\ UNCHANGED <<ok, tool_cfg, ai_text_to_speak,
                                      emotion_codes_list, events>>

\* a turn that clears the flag when the append fails
AppendMessageClearsFlag(w) ==
  /\ pc[w] = "append"
  /\ UNCHANGED <<client, vector_store, assistant, thread, full_response, upstream,
                 config, nReq>>
  /\ IF client = NoClient \/ thread = None
       THEN Raise(w, ErrorResponse) /\ ai_initialized_successfully' = FALSE
       ELSE \/ /\ Call(w, "messages.create")
               /\ Goto(w, "run")
               /\ UNCHANGED <<locals, ai_initialized_successfully>>
            \/ /\ CallRaise(w, "messages.create", ErrorResponse)
               /\ ai_initialized_successfully' = FALSE

\* client.beta.threads.messages.create(thread_id=thread.id, role="user", ...)
AppendMessage(w) ==
  /\ pc[w] = "append"
  /\ UNCHANGED <<globals, upstream, config, nReq>>
  /\ IF client = NoClient \/ thread = None
       THEN Raise(w, ErrorResponse)
       ELSE \/ Call(w, "messages.create") /\ Goto(w, "run") /\ UNCHANGED locals
            \/ CallRaise(w, "messages.create", ErrorResponse)

\* client.beta.threads.runs.stream(thread_id=thread.id, assistant_id=assistant.id, ...)
RunStream(w) ==
  /\ pc[w] = "run"
  /\ UNCHANGED <<globals, upstream, config, nReq>>
  /\ IF client = NoClient \/ thread = None \/ assistant = None
       THEN Raise(w, ErrorResponse)
       ELSE \/ Call(w, "runs.stream") /\ Goto(w, "stream") /\ UNCHANGED locals
            \/ CallRaise(w, "runs.stream", ErrorResponse)

\* a handler that keeps what it has accumulated when a text is created
OnTextCreatedKeeps(w) ==
  /\ pc[w] = "stream"
  /\ Len(events[w]) < MaxEvents
  /\ events' = [events EXCEPT ![w] = Append(@, TextCreated)]
  /\ done' = NoAnswer
  /\ UNCHANGED <<globals, upstream, config, nReq, pc, req, calls, ok, tool_cfg,
                 user_transcription, ai_text_to_speak, emotion_codes_list>>

\* EventHandler.on_text_created
OnTextCreated(w) ==
  /\ pc[w] = "stream"
  /\ Len(events[w]) < MaxEvents
  /\ full_response' = <<>>
  /\ events' = [events EXCEPT ![w] = Append(@, TextCreated)]
  /\ done' = NoAnswer
  /\ UNCHANGED <<session, upstream, config, nReq, pc, req, calls, ok, tool_cfg,
                 user_transcription, ai_text_to_speak, emotion_codes_list>>

\* EventHandler.on_text_delta, for a delta of a text that was created
OnTextDelta(w, f) ==
  /\ pc[w] = "stream"
  /\ Len(events[w]) < MaxEvents
  /\ \E i \in 1..Len(events[w]) : events[w][i] = TextCreated
  /\ full_response' = full_response \o Fragments[f]
  /\ events' = [events EXCEPT ![w] = Append(@, f)]
  /\ done' = NoAnswer
  /\ UNCHANGED <<session, upstream, config, nReq, pc, req, calls, ok, tool_cfg,
                 user_transcription, ai_text_to_speak, emotion_codes_list>>

\* a failure of the stream that also drops the thread
StreamErrorDropsThread(w) ==
  /\ pc[w] = "stream"
  /\ Raise(w, ErrorResponse)
  /\ thread' = None
  /\ UNCHANGED <<client, vector_store, assistant, full_response,
                 ai_initialized_successfully, upstream, config, nReq>>

\* stream.until_done() raises
StreamError(w) ==
  /\ pc[w] = "stream"
  /\ Raise(w, ErrorResponse)
  /\ UNCHANGED <<globals, upstream, config, nReq>>

\* the codes collected last sentence first
EmotionCodesReversed(text) ==
  LET analyzed_sentences == analyze_text(text)
      n == Len(analyzed_sentences)
  IN IF n = 0 THEN <<0>>
     ELSE [i \in 1..n |-> analyzed_sentences[n + 1 - i].emotion]

\* the emotion codes process_interaction_and_speak collects for a non-empty text
EmotionCodes(text) ==
  LET analyzed_sentences == analyze_text(text)
      collected == [i \in 1..Len(analyzed_sentences) |-> analyzed_sentences[i].emotion]
  IN IF collected = <<>> /\ analyzed_sentences # <<>> THEN <<0>>
     ELSE IF analyzed_sentences = <<>> THEN <<0>>
     ELSE collected

\* a turn that goes on to the synthesis whatever the text
StreamDoneAlwaysSpeaks(w) ==
  /\ pc[w] = "stream"
  /\ UNCHANGED <<globals, upstream, config, nReq>>
  /\ LET text == clean_text_for_tts(Strip(full_response))
     IN /\ ai_text_to_speak' = [ai_text_to_speak EXCEPT ![w] = text]
        /\ emotion_codes_list' =
             [emotion_codes_list EXCEPT ![w] = EmotionCodes(text)]
        /\ Goto(w, "tts")
        /\ UNCHANGED <<calls, ok, tool_cfg, user_transcription, events>>

\* stream.until_done() returns: the response is cleaned and analyzed; without a text
\* to speak process_interaction_and_speak returns (None, [0])
StreamDone(w) ==
  /\ pc[w] = "stream"
  /\ UNCHANGED <<globals, upstream, config, nReq>>
  /\ LET text == clean_text_for_tts(Strip(full_response))
     IN IF text # <<>>
          THEN /\ ai_text_to_speak' = [ai_text_to_speak EXCEPT ![w] = text]
               /\ emotion_codes_list' =
                    [emotion_codes_list EXCEPT ![w] = EmotionCodes(text)]
               /\ Goto(w, "tts")
               /\ UNCHANGED <<calls, ok, tool_cfg, user_transcription, events>>
          ELSE Return(w, ErrorResponse)

\* the endpoint's answer to the audio bytes and emotion codes it got
SpokenResponse(audio_bytes, codes) ==
  Audio(200, audio_bytes, JoinCodes(IF codes # <<>> THEN codes ELSE <<0>>))

\* text_to_speech_bytes, and the endpoint's answer
TextToSpeech(w) ==
  /\ pc[w] = "tts"
  /\ UNCHANGED <<globals, upstream, config, nReq>>
  /\ \/ \E audio_bytes \in {"", "bytes"} :
          CallReturn(w, "edge_tts", SpokenResponse(audio_bytes, emotion_codes_list[w]))
     \/ CallRaise(w, "edge_tts", ErrorResponse)

\* ------------------------------------------------------------------------
\* Specifications
\* ------------------------------------------------------------------------

Step(w) ==
  \/ InitializeAI(w)
  \/ KeyProbe(w)
  \/ VectorStoreList(w)
  \/ VectorStoreCreate(w)
  \/ FileUpload(w)
  \/ UploadFailed(w)
  \/ AssistantList(w)
  \/ AssistantUpdate(w)
  \/ AssistantCreate(w)
  \/ ThreadCreate(w)
  \/ SetFlag(w)
  \/ \E a \in Audios : InteractStart(w, a)
  \/ Transcribe(w)
  \/ AppendMessage(w)
  \/ RunStream(w)
  \/ OnTextCreated(w)
  \/ \E f \in 1..Len(Fragments) : OnTextDelta(w, f)
  \/ StreamError(w)
  \/ StreamDone(w)
  \/ TextToSpeech(w)

\* requests handled by concurrent threads
Next == \E w \in Workers : Step(w)

Spec == Init /\ [][Next]_vars

\* requests handled one after another
SpecSeq == InitSeq /\ [][Next]_vars

\* ------------------------------------------------------------------------
\* The text functions called on their own
\* ------------------------------------------------------------------------

\* pieces a text is made of
MaxParts == 3

\* "Senti uma grande tristeza e saudade."
TristezaSentence ==
  <<"S", "e", "n", "t", "i", " ", "u", "m", "a", " ", "g", "r", "a", "n", "d", "e", " ",
    "t", "r", "i", "s", "t", "e", "z", "a", " ", "e", " ",
    "s", "a", "u", "d", "a", "d", "e", ".">>

\* the pieces: emphasis delimiters, a letter, a glyph, a list marker, whitespace,
\* sentence punctuation, a happy word, a sad word, a whole sentence
Pieces ==
  {<<"_", "_">>, <<"a">>, <<"STAR">>, <<"-", " ">>, <<" ">>, <<"\n">>, <<".">>,
   <<"F", "e", "l", "i", "z">>, <<"t", "r", "i", "s", "t", "e">>, TristezaSentence}

\* the texts of at most n pieces
RECURSIVE TextsOf(_)
TextsOf(n) ==
  IF n = 0 THEN {<<>>}
  ELSE LET shorter == TextsOf(n - 1)
       IN shorter \cup {t \o p : t \in shorter, p \in Pieces}

Texts == TextsOf(MaxParts)

\* the globals and the account as the process starts, no request ever sent
InitText ==
  /\ Start
  /\ threaded = FALSE
  /\ upStores = <<>>
  /\ upAssistants = <<>>
  /\ fileExists
  /\ given_text \in Texts
  /\ stage = "input"

server == <<globals, upstream, fileExists, threaded, nReq, pc, req, calls, locals, done>>

\* text = clean_text_for_tts(text)
CleanText ==
  /\ stage = "input"
  /\ cleaned_text' = clean_text_for_tts(given_text)
  /\ stage' = "cleaned"
  /\ UNCHANGED <<server, given_text, split_sentences, emotion_code>>

\* clean_text_for_tts applied to its own result
CleanAgain ==
  /\ stage = "cleaned"
  /\ cleaned_text' = clean_text_for_tts(cleaned_text)
  /\ stage' = "cleaned_twice"
  /\ UNCHANGED <<server, given_text, split_sentences, emotion_code>>

\* sentences = sentence_split(text)
SplitText ==
  /\ stage = "input"
  /\ split_sentences' = sentence_split(given_text)
  /\ stage' = "split"
  /\ UNCHANGED <<server, given_text, cleaned_text, emotion_code>>

\* emotion = detect_emotion(sentence)
DetectEmotion ==
  /\ stage = "input"
  /\ emotion_code' = detect_emotion(given_text)
  /\ stage' = "scored"
  /\ UNCHANGED <<server, given_text, cleaned_text, split_sentences>>

NextText ==
  \/ CleanText
  \/ CleanAgain
  \/ SplitText
  \/ DetectEmotion

SpecText == InitText /\ [][NextText]_vars

\* ------------------------------------------------------------------------
\* Properties
\* ------------------------------------------------------------------------

\* the step takes a request of this kind from the network
Received(kind) ==
  /\ nReq' = nReq + 1
  /\ \/ done'.req.kind = kind
     \/ \E w \in Workers : pc[w] = "idle" /\ req'[w].kind = kind

\* status = Ready
SessionReady == ai_initialized_successfully /\ client # NoClient

\* the four identifiers of the session are empty
SessionEmpty ==
  /\ client = NoClient
  /\ vector_store = None
  /\ assistant = None
  /\ thread = None

\* the call is among the calls cs
Called(name, cs) == \E i \in 1..Len(cs) : cs[i] = name

\* the last of the calls cs, "" when there is none
LastCall(cs) == IF cs = <<>> THEN "" ELSE cs[Len(cs)]

\* C1: an initialize request that arrives while the session is Ready is answered at
\* once with success, makes no upstream call, and leaves client, vector_store,
\* assistant, thread, the other globals and the account upstream as they were,
\* whatever body the request carries.
C1_IdempotentInitialize ==
  [][(Received("initialize") /\ SessionReady) =>
       /\ done'.req.kind = "initialize"
       /\ done'.resp = Json(200, "AI components already initialized")
       /\ done'.calls = <<>>
       /\ UNCHANGED <<globals, upstream>>]_vars

\* a Ready session has answered an initialize request that carried another key
C1_Witness ==
  /\ SessionReady
  /\ done.req.kind = "initialize"
  /\ done.req.has_key
  /\ Strip(done.req.api_key) # <<>>
  /\ done.req.api_key # client
  /\ done.resp.status = 200
  /\ done.calls = <<>>

\* the assistant held in the global is bound upstream to the vector store held in
\* the global
PersonaBound ==
  /\ vector_store # None
  /\ \E i \in 1..Len(upAssistants) :
       /\ upAssistants[i].id = assistant
       /\ vector_store \in upAssistants[i].vector_store_ids

\* C2: with requests handled one after another, whenever ai_initialized_successfully
\* is true the client, the assistant and the thread are set and the assistant upstream
\* is bound to the vector store in vector_store.
C2_ReadyInvariant ==
  ai_initialized_successfully =>
    /\ client # NoClient
    /\ assistant # None
    /\ thread # None
    /\ PersonaBound

\* an initialization that had to update the assistant found upstream has succeeded
C2_Witness ==
  /\ ai_initialized_successfully
  /\ done.req.kind = "initialize"
  /\ done.resp.status = 200
  /\ Called("assistants.update", done.calls)

\* C3: with requests handled one after another, once an upstream call of the
\* initialization sequence has raised the session is not Ready and client,
\* vector_store, assistant and thread are empty, and the request is answered with the
\* failure, the session still not Ready and empty.
C3_FailureReset ==
  /\ \A w \in Workers :
       (pc[w] = "set_flag" /\ ~ok[w]) => ~ai_initialized_successfully /\ SessionEmpty
  /\ (done.req.kind = "initialize" /\ done.raised) =>
       /\ done.resp = Json(500, "AI initialization failed on server")
       /\ ~ai_initialized_successfully
       /\ SessionEmpty

\* the thread creation raised, after the vector store and the assistant had been set
C3_Witness ==
  /\ done.req.kind = "initialize"
  /\ done.raised
  /\ LastCall(done.calls) = "threads.create"
  /\ Called("assistants.create", done.calls)
  /\ done.resp.status = 500

\* C4: however the initialize requests overlap, at most one thread is created
\* upstream.
C4_SingleFlight == nThreads <= 1

\* the reply the worker's own stream delivered: the fragments since its last
\* text-created event, in delivery order
RECURSIVE OwnReply(_)
OwnReply(es) ==
  IF es = <<>> THEN <<>>
  ELSE IF es[Len(es)] = TextCreated THEN <<>>
  ELSE OwnReply(SubSeq(es, 1, Len(es) - 1)) \o Fragments[es[Len(es)]]

\* C5: the text a turn is about to synthesize is the sanitized reply of its own
\* generation stream, whatever another turn in flight does.
C5_ReplyIsolation ==
  \A w \in Workers :
    pc[w] = "tts" => ai_text_to_speak[w] = clean_text_for_tts(Strip(OwnReply(events[w])))

\* C6: an interaction request that arrives while the session is not Ready is answered
\* at once with 403, makes no external call, and leaves the globals and the account
\* upstream as they were.
C6_SessionNotReady ==
  [][(Received("interact") /\ ~SessionReady) =>
       /\ done'.req.kind = "interact"
       /\ done'.resp =
            Json(403, "AI not initialized. Send API key to /initialize_ai first.")
       /\ done'.calls = <<>>
       /\ UNCHANGED <<globals, upstream>>]_vars

\* an interaction with an audio file was rejected after an initialization that had
\* created the vector store failed
C6_Witness ==
  /\ done.req.kind = "interact"
  /\ done.req.has_file
  /\ done.resp.status = 403
  /\ done.calls = <<>>
  /\ upStores # <<>>
  /\ ~ai_initialized_successfully

\* C7: an interaction whose transcription returned an empty or whitespace-only text
\* is answered with status 200, an empty audio body and the codes "0", after the
\* transcription call alone: no message appended, no run, no synthesis.
C7_EmptyTranscript ==
  (/\ done.req.kind = "interact"
   /\ done.calls # <<>>
   /\ ~(done.raised /\ Len(done.calls) = 1)
   /\ Strip(done.req.said) = <<>>)
  => /\ done.resp = Audio(200, "", <<"0">>)
     /\ done.calls = <<"transcriptions.create">>

\* a whitespace-only transcription was answered
C7_Witness ==
  /\ done.req.kind = "interact"
  /\ done.req.said # <<>>
  /\ Strip(done.req.said) = <<>>
  /\ done.calls = <<"transcriptions.create">>
  /\ ~done.raised
  /\ done.resp.status = 200

\* C8: a turn whose stream ended without raising and whose reply sanitizes to the
\* empty text is answered with status 200, an empty audio body and the codes "0",
\* without a synthesis call.
C8_EmptyReplyNotAnError ==
  (/\ done.req.kind = "interact"
   /\ LastCall(done.calls) = "runs.stream"
   /\ ~done.raised
   /\ clean_text_for_tts(Strip(full_response)) = <<>>)
  => done.resp = Audio(200, "", <<"0">>)

\* the header lists one or more codes, each 0, 1 or 2, separated by commas
IsCodeList(h) ==
  /\ Len(h) % 2 = 1
  /\ \A i \in 1..Len(h) : IF i % 2 = 1 THEN h[i] \in {"0", "1", "2"} ELSE h[i] = ","

\* C9: every interaction answered with status 200 carries a header that lists at
\* least one code, and only codes 0, 1 and 2.
C9_CodesNonEmpty ==
  (done.req.kind = "interact" /\ done.resp.status = 200) =>
    IsCodeList(done.resp.emotion_header)

\* a spoken reply of several sentences was answered
C9_Witness ==
  /\ done.req.kind = "interact"
  /\ done.resp.status = 200
  /\ done.resp.body = "bytes"
  /\ Len(done.resp.emotion_header) > 1

\* the score of each sentence of the segmenter, in sentence order
PerSentenceCodes(text) ==
  LET sentences == sentence_split(text)
  IN [i \in 1..Len(sentences) |-> detect_emotion(sentences[i])]

\* C10: the codes collected for a text to speak, and the codes of the answer that
\* carries its audio, are the scores of the sentences of the segmenter, one per
\* sentence and in sentence order.
C10_OneCodePerSentence ==
  [][\A w \in Workers :
       (pc[w] = "tts" /\ pc'[w] = "idle" /\ done'.resp.status = 200) =>
         LET codes == PerSentenceCodes(ai_text_to_speak[w])
         IN /\ emotion_codes_list[w] = codes
            /\ done'.resp.emotion_header = JoinCodes(codes)]_vars

\* a reply of a neutral, a happy and a sad sentence was answered
C10_Witness ==
  /\ done.req.kind = "interact"
  /\ done.resp.status = 200
  /\ done.resp.emotion_header = <<"0", ",", "1", ",", "2">>

\* the calls of a turn that went through every step
TurnCalls == <<"transcriptions.create", "messages.create", "runs.stream", "edge_tts">>

\* C11: an interaction in which an exception was caught (the transcription, the
\* append, the run, the stream or the synthesis raised) is answered with status 500
\* and a body without audio bytes; an answer that carries audio bytes has status 200
\* and follows a turn in which every call was made and none raised.
C11_NoAudioOnFailure ==
  done.req.kind = "interact" =>
    /\ done.raised => (done.resp.status = 500 /\ done.resp.body # "bytes")
    /\ done.resp.body = "bytes" =>
         (~done.raised /\ done.resp.status = 200 /\ done.calls = TurnCalls)

\* the synthesis raised after the reply had been generated
C11_Witness ==
  /\ done.req.kind = "interact"
  /\ done.raised
  /\ done.calls = TurnCalls
  /\ done.resp.status = 500
  /\ done.resp.body = ""

\* the step is one of worker w's turn: the handler of its interaction request moves on
TurnStep(w) ==
  /\ req[w].kind = "interact"
  /\ pc'[w] # pc[w] \/ events'[w] # events[w]

\* C12: with requests handled one after another, no step of a turn changes the
\* session (the flag, client, vector_store, assistant, thread) or the account
\* upstream, and when a turn is answered after an exception the session is still
\* Ready with its assistant and thread.
C12_FailedTurnKeepsSession ==
  [][\A w \in Workers :
       TurnStep(w) =>
         /\ UNCHANGED <<session, upstream>>
         /\ (done'.req.kind = "interact" /\ done'.raised) =>
              (SessionReady' /\ assistant' # None /\ thread' # None)]_vars

\* a turn whose generation run or stream raised was answered, the session Ready
C12_Witness ==
  /\ done.req.kind = "interact"
  /\ done.raised
  /\ LastCall(done.calls) = "runs.stream"
  /\ SessionReady
  /\ thread # None

\* every fragment the stream delivered, in delivery order
RECURSIVE AllFragments(_)
AllFragments(es) ==
  IF es = <<>> THEN <<>>
  ELSE IF Head(es) = TextCreated THEN AllFragments(Tail(es))
  ELSE Fragments[Head(es)] \o AllFragments(Tail(es))

\* C13: with requests handled one after another, when the stream of a turn is done
\* without raising, the reply read for the sanitizer is the concatenation, in
\* delivery order, of every fragment the stream delivered.
C13_StreamingAggregation ==
  [][\A w \in Workers :
       (/\ pc[w] = "stream"
        /\ pc'[w] \in {"tts", "idle"}
        /\ ~done'.raised)
       => full_response = AllFragments(events[w])]_vars

\* how many of the calls cs are the call
RECURSIVE CountCalls(_, _)
CountCalls(name, cs) ==
  IF cs = <<>> THEN 0
  ELSE (IF Head(cs) = name THEN 1 ELSE 0) + CountCalls(name, Tail(cs))

\* C14: the step that ends initialize_ai_components with True creates a thread
\* upstream that did not exist and puts it in the global, whether or not a thread
\* was held; and an initialize request answered with success made one thread
\* creation call, as its last call, after it had listed the vector stores and the
\* assistants.
C14_NewThreadLast ==
  [][/\ \A w \in Workers :
          (pc[w] = "thread_create" /\ pc'[w] = "set_flag" /\ ok'[w]) =>
            /\ nThreads' = nThreads + 1
            /\ thread' = nThreads'
            /\ thread' # thread
     /\ (done'.req.kind = "initialize" /\ done'.resp.body = "AI initialized successfully")
          => /\ LastCall(done'.calls) = "threads.create"
             /\ CountCalls("threads.create", done'.calls) = 1
             /\ Called("vector_stores.list", done'.calls)
             /\ Called("assistants.list", done'.calls)]_vars

\* two initialize requests, and no other, have each created a thread: the second
\* thread was created while the first was held
C14_Witness ==
  /\ nReq = 2
  /\ nThreads = 2
  /\ thread = 2
  /\ done.req.kind = "initialize"
  /\ done.resp.body = "AI initialized successfully"

\* the step accepts an initialize request and answers it at once
AnsweredAtOnce ==
  /\ nReq' = nReq + 1
  /\ done'.req.kind = "initialize"
  /\ done'.calls = <<>>

\* the calls are the whole sequence: the key probe first, the knowledge resource and
\* the persona resolved, a thread created last
WholeSequence(cs) ==
  /\ cs # <<>>
  /\ Head(cs) = "models.list"
  /\ Called("vector_stores.list", cs)
  /\ Called("assistants.list", cs)
  /\ LastCall(cs) = "threads.create"

\* C15 as stated: an initialize request whose key is not blank and differs from the
\* key the session holds is never answered at once, and when it is answered without
\* a failure it has run the whole sequence.
C15_ReinitializeRerunsAll ==
  [][/\ (AnsweredAtOnce /\ done'.req.has_key)
          => (Strip(done'.req.api_key) = <<>> \/ done'.req.api_key = client)
     /\ (done'.req.kind = "initialize" /\ done'.req.has_key
          /\ Strip(done'.req.api_key) # <<>> /\ done # done' /\ ~done'.raised)
          => WholeSequence(done'.calls)]_vars

\* C15 amended: while the session is not Ready (the flag is false or no client is
\* held), an initialize request whose key is not blank is never answered at once,
\* and an initialize request that made a call and did not fail has run the whole
\* sequence and is answered with success.
C15_ReinitializeWhenNotReady ==
  [][/\ (AnsweredAtOnce /\ done'.req.has_key
          /\ ~(ai_initialized_successfully /\ client # NoClient))
          => Strip(done'.req.api_key) = <<>>
     /\ (done'.req.kind = "initialize" /\ done'.calls # <<>> /\ ~done'.raised)
          => /\ WholeSequence(done'.calls)
             /\ done'.resp = Json(200, "AI initialized successfully")]_vars

\* the second request, with the second key, ran the whole sequence after the first
\* request, with the first key, had created the vector store and then failed
C15_Witness ==
  /\ nReq = 2
  /\ \A w \in Workers : pc[w] = "idle"
  /\ done.req.kind = "initialize"
  /\ done.req.api_key = ApiKey(2)
  /\ done.resp = Json(200, "AI initialized successfully")
  /\ WholeSequence(done.calls)
  /\ ~Called("vector_stores.create", done.calls)
  /\ Len(upStores) = 1
  /\ nThreads = 1
  /\ client = ApiKey(2)

\* C16: clean_text_for_tts applied to its own result returns it unchanged.
C16_SanitizerIdempotent ==
  [][(stage = "cleaned" /\ stage' = "cleaned_twice") => cleaned_text' = cleaned_text]_vars

\* C17: on a text whose happy score equals its sad score, both above zero,
\* detect_emotion returns 2; and it returns 1 exactly when the happy score is
\* above the sad score.
C17_TieBreak ==
  stage = "scored" =>
    LET happy == happy_score(given_text)
        sad == sad_score(given_text)
    IN /\ (happy = sad /\ happy > 0) => emotion_code = 2
       /\ emotion_code = 1 <=> happy > sad

\* detect_emotion was applied to a text with as many happy as sad matches
C17_Witness ==
  /\ stage = "scored"
  /\ happy_score(given_text) = sad_score(given_text)
  /\ happy_score(given_text) > 0
  /\ emotion_code = 2

\* C18: detect_emotion returns 0 on a text with no match of a happy word and no
\* match of a sad word, and on no other text.
C18_NeutralIffNoMatch ==
  stage = "scored" =>
    (emotion_code = 0 <=> (happy_score(given_text) = 0 /\ sad_score(given_text) = 0))

\* detect_emotion was applied to a text that has words and no match
C18_Witness ==
  /\ stage = "scored"
  /\ \E i \in 1..Len(given_text) : given_text[i] \in Letters
  /\ happy_score(given_text) = 0
  /\ sad_score(given_text) = 0
  /\ emotion_code = 0

\* the text has a character that is not whitespace
NonBlank(s) == \E i \in 1..Len(s) : s[i] \notin Whitespace

\* C19: no element sentence_split returns is empty or made of whitespace only, and
\* it returns at least one element for a text with a character that is not
\* whitespace.
C19_NoEmptySentence ==
  stage = "split" =>
    /\ \A i \in 1..Len(split_sentences) : split_sentences[i] # <<>> /\ NonBlank(split_sentences[i])
    /\ NonBlank(given_text) => Len(split_sentences) >= 1

\* sentence_split was applied to a text the split of which has an empty piece, and
\* returned fewer elements than the split has pieces
C19_Witness ==
  /\ stage = "split"
  /\ NonBlank(given_text)
  /\ Len(split_sentences) >= 1
  /\ LET pieces == SplitAfterPunct(SpaceAfterPunct(given_text), 1, <<>>)
     IN /\ \E i \in 1..Len(pieces) : Strip(pieces[i]) = <<>>
        /\ Len(split_sentences) < Len(pieces)

\* C20 as stated: on "Senti uma grande tristeza e saudade." the sad score is 2, the
\* happy score 0, and detect_emotion returns 2.
C20_TwoSadMatches ==
  (stage = "scored" /\ given_text = TristezaSentence) =>
    /\ sad_score(given_text) = 2
    /\ happy_score(given_text) = 0
    /\ emotion_code = 2

\* C20 amended: on "Senti uma grande tristeza e saudade." the sad score is 3 (the
\* word tristeza is counted for the list entry triste and for the list entry
\* tristeza, the word saudade for the entry saudade), the happy score 0, and
\* detect_emotion returns 2.
C20_ThreeSadMatches ==
  (stage = "scored" /\ given_text = TristezaSentence) =>
    /\ sad_score(given_text) = 3
    /\ ScoreOf(Lower(given_text), <<sad_words[1], sad_words[16]>>) = 2
    /\ happy_score(given_text) = 0
    /\ emotion_code = 2

\* detect_emotion was applied to the sentence
C20_Witness == stage = "scored" /\ given_text = TristezaSentence /\ emotion_code = 2

\* the positions of a worker inside initialize_ai_components
InitStages ==
  {"probe", "vs_list", "vs_create", "upload", "upload_failed", "asst_list",
   "asst_update",
   "asst_create", "thread_create"}

\* the step answers an initialize request with the failure of the sequence
InitAttemptFailed ==
  /\ done'.req.kind = "initialize"
  /\ done'.resp = Json(500, "AI initialization failed on server")

\* C21: with requests handled one after another, the step that answers a failed
\* initialization attempt leaves the session not Ready; an initialize request
\* with a key that is not blank that arrives while the session is not Ready is not
\* answered at once but starts the sequence with the key probe; inside the sequence
\* the client is never missing, so that the sequence fails only when an upstream
\* call fails; and an attempt that made a call and did not fail ran the whole
\* sequence and leaves the session Ready.
C21_CleanRetry ==
  [][/\ InitAttemptFailed => ~SessionReady'
     /\ (AnsweredAtOnce /\ ~SessionReady /\ done'.req.has_key)
          => Strip(done'.req.api_key) = <<>>
     /\ \A w \in Workers : pc[w] \in InitStages => client # NoClient
     /\ (done'.req.kind = "initialize" /\ done'.calls # <<>> /\ ~done'.raised)
          => /\ WholeSequence(done'.calls)
             /\ done'.resp = Json(200, "AI initialized successfully")
             /\ SessionReady'
             /\ vector_store' # None /\ assistant' # None /\ thread' # None]_vars

\* the second request ran the whole sequence and left the session Ready after the
\* first had created the vector store, uploaded the file, and failed before it
\* created a thread
C21_Witness ==
  /\ ~threaded
  /\ nReq = 2
  /\ done.req.kind = "initialize"
  /\ done.req.api_key = ApiKey(2)
  /\ done.resp = Json(200, "AI initialized successfully")
  /\ WholeSequence(done.calls)
  /\ ~Called("vector_stores.create", done.calls)
  /\ indexed = {1}
  /\ nThreads = 1
  /\ SessionReady

\* the request carries no key, or a key that is empty or whitespace only
NoCredentials(r) == ~r.has_key \/ Strip(r.api_key) = <<>>

\* the step takes an initialize request without credentials from the network
ReceivedNoCredentials ==
  /\ nReq' = nReq + 1
  /\ \/ done'.req.kind = "initialize" /\ NoCredentials(done'.req)
     \/ \E w \in Workers :
          pc[w] = "idle" /\ req'[w].kind = "initialize" /\ NoCredentials(req'[w])

\* the step answers with a rejection of the credentials, having made no call and
\* changed neither a global nor the account upstream
RejectedAtOnce ==
  /\ done'.req.kind = "initialize"
  /\ done'.resp.status = 400
  /\ done'.calls = <<>>
  /\ \A w \in Workers : pc'[w] = pc[w]
  /\ UNCHANGED <<globals, upstream>>

\* C22 as stated: every initialize request without credentials is rejected at once,
\* with no call made and no global changed.
C22_FailFast == [][ReceivedNoCredentials => RejectedAtOnce]_vars

\* C22 amended: every initialize request without credentials that arrives while
\* the session is not Ready is rejected at once with status 400, with no call made
\* and no global changed; one that arrives while the session is Ready is answered
\* at once with status 200, with no call made and no global changed either.
C22_FailFastWhenNotReady ==
  [][ReceivedNoCredentials =>
       /\ ~SessionReady => RejectedAtOnce
       /\ SessionReady =>
            /\ done'.resp = Json(200, "AI components already initialized")
            /\ done'.calls = <<>>
            /\ UNCHANGED <<globals, upstream>>]_vars

\* a whitespace-only key was rejected while the other worker was in the middle of
\* the sequence, the client and the vector store set
C22_Witness ==
  /\ done.req.kind = "initialize"
  /\ done.req.has_key
  /\ done.req.api_key = <<" ">>
  /\ done.resp = Json(400, "Empty API key received")
  /\ done.calls = <<>>
  /\ client # NoClient
  /\ vector_store # None
  /\ ~ai_initialized_successfully

\* C23: the step in which the key probe fails resets the client, makes
\* initialize_ai_components return False, and changes neither another global nor
\* the account upstream; the request whose last call is the key probe made no other
\* call and is answered with the failure; and a request that made any call made the
\* key probe first.
C23_ProbeGates ==
  [][/\ \A w \in Workers :
          (pc[w] = "probe" /\ pc'[w] = "set_flag")
            => /\ client' = NoClient
               /\ ~ok'[w]
               /\ UNCHANGED <<vector_store, assistant, thread, upstream>>
     /\ (done'.req.kind = "initialize" /\ LastCall(done'.calls) = "models.list")
          => /\ done'.calls = <<"models.list">>
             /\ done'.raised
             /\ done'.resp = Json(500, "AI initialization failed on server")
             /\ ~ai_initialized_successfully'
     /\ (done'.req.kind = "initialize" /\ done'.calls # <<>>)
          => Head(done'.calls) = "models.list"]_vars

\* the first request of the process failed at the key probe
C23_Witness ==
  /\ nReq = 1
  /\ done.req.kind = "initialize"
  /\ done.calls = <<"models.list">>
  /\ done.raised
  /\ done.resp = Json(500, "AI initialization failed on server")
  /\ client = NoClient
  /\ ~ai_initialized_successfully
  /\ upStores = <<>> /\ upAssistants = <<>> /\ nThreads = 0

\* C24: with requests handled one after another, the step that lists the vector
\* stores goes on to the persona, the first store of the expected name in the
\* global, when there is such a store, and goes on to the creation only when there
\* is none; the creation that succeeds adds one store upstream and puts it in the
\* global; no attempt makes more than one creation call, and none when it found a
\* store; and the account never holds more than one store of the expected name.
C24_StoreResolution ==
  [][/\ \A w \in Workers :
          /\ (pc[w] = "vs_list" /\ pc'[w] \notin {"vs_list", "set_flag"})
               => /\ UNCHANGED upStores
                  /\ IF upStores # <<>>
                       THEN pc'[w] = "asst_list" /\ vector_store' = Head(upStores)
                       ELSE pc'[w] = "vs_create"
          /\ (pc[w] = "vs_create" /\ pc'[w] \notin {"vs_create", "set_flag"})
               => /\ upStores = <<>>
                  /\ Len(upStores') = 1
                  /\ vector_store' = Head(upStores')
     /\ (\A w \in Workers : pc[w] # "vs_create") => UNCHANGED upStores
     /\ done'.req.kind = "initialize"
          => CountCalls("vector_stores.create", done'.calls) <= 1
     /\ Len(upStores') <= 1]_vars

\* an attempt found and reused the store that an earlier attempt of the same run
\* had created and filled
C24_Witness ==
  /\ ~threaded
  /\ done.req.kind = "initialize"
  /\ Called("vector_stores.list", done.calls)
  /\ ~Called("vector_stores.create", done.calls)
  /\ Called("assistants.list", done.calls)
  /\ upStores = <<1>>
  /\ indexed = {1}

\* the first persona of the expected name has the expected instructions and is
\* bound to the first vector store of the expected name
Patched ==
  /\ upAssistants # <<>>
  /\ upStores # <<>>
  /\ Head(upAssistants).instructions_ok
  /\ Head(upStores) \in Head(upAssistants).vector_store_ids

\* C25: with requests handled one after another, the step that lists the personas
\* goes on to the creation exactly when there is none; when there is one it puts it
\* in the global and goes on to the update exactly when its instructions are not
\* the expected ones or the resolved vector store is not among its bound stores;
\* no attempt makes both an update and a creation call, or two of either; the
\* update and the creation that succeed leave the persona without drift; and once
\* the persona is without drift it stays so and no attempt goes on to the update.
C25_PersonaReconciliation ==
  [][/\ \A w \in Workers :
          /\ (pc[w] = "asst_list" /\ pc'[w] \notin {"asst_list", "set_flag"})
               => /\ vector_store # None
                  /\ UNCHANGED upAssistants
                  /\ IF upAssistants = <<>>
                       THEN pc'[w] = "asst_create"
                       ELSE /\ assistant' = Head(upAssistants).id
                            /\ pc'[w] \in {"asst_update", "thread_create"}
                            /\ pc'[w] = "asst_update" <=>
                                 \/ ~Head(upAssistants).instructions_ok
                                 \/ vector_store
                                      \notin Head(upAssistants).vector_store_ids
          /\ (pc[w] \in {"asst_update", "asst_create"} /\ pc'[w] = "thread_create")
               => /\ Patched'
                  /\ Head(upAssistants').id = assistant'
                  /\ Len(upAssistants') = IF pc[w] = "asst_create" THEN 1
                                          ELSE Len(upAssistants)
          /\ (Patched /\ pc[w] = "asst_list") => pc'[w] # "asst_update"
     /\ Patched => Patched'
     /\ done'.req.kind = "initialize"
          => /\ CountCalls("assistants.update", done'.calls)
                  + CountCalls("assistants.create", done'.calls) <= 1
             /\ Len(upAssistants') <= 1]_vars

\* an attempt found the persona with drift, updated it, and went on to succeed
\* without a creation call
C25_Witness ==
  /\ ~threaded
  /\ done.req.kind = "initialize"
  /\ done.resp = Json(200, "AI initialized successfully")
  /\ Called("assistants.update", done.calls)
  /\ ~Called("assistants.create", done.calls)
  /\ Patched
  /\ assistant = Head(upAssistants).id

\* C26: the step taken after the upload of the document has raised makes
\* initialize_ai_components return False with every global reset, and makes no
\* further call.
C26_UploadErrorAborts ==
  [][\A w \in Workers :
       (pc[w] = "upload_failed" /\ pc'[w] # pc[w])
         => /\ pc'[w] = "set_flag"
            /\ ~ok'[w]
            /\ SessionEmpty']_vars

\* the calls cs are the first calls of a turn, in the order of the turn
IsTurnPrefix(cs) == Len(cs) <= Len(TurnCalls) /\ cs = SubSeq(TurnCalls, 1, Len(cs))

\* where each worker is in a turn agrees with the calls it has made and with what
\* it holds
StepOrder ==
  /\ \A w \in Workers :
       /\ pc[w] = "transcribe" => calls[w] = <<>>
       /\ pc[w] = "append"
            => /\ calls[w] = SubSeq(TurnCalls, 1, 1)
               /\ Strip(user_transcription[w]) # <<>>
       /\ pc[w] = "run" => calls[w] = SubSeq(TurnCalls, 1, 2)
       /\ pc[w] = "stream"
            => calls[w] = SubSeq(TurnCalls, 1, 3) /\ ai_text_to_speak[w] = <<>>
       /\ pc[w] = "tts"
            => calls[w] = SubSeq(TurnCalls, 1, 3) /\ ai_text_to_speak[w] # <<>>
       /\ pc[w] \notin {"stream", "tts"} => events[w] = <<>>
  /\ done.req.kind = "interact" => IsTurnPrefix(done.calls)

\* C27: in every state a worker that is about to append the message has made the
\* transcription call alone and holds a transcript that is not empty; one about to
\* start the run has made the transcription and the append; one in the stream has
\* started the run and has read no text yet; one about to synthesize has made
\* these three calls and holds a text that is not empty; the text it holds is the
\* sanitized buffer as it was when the stream ended; and the calls of an answered
\* turn are the first calls of transcription, append, run, synthesis, in this
\* order, each made once.
C27_StrictStepOrder ==
  [][/\ StepOrder'
     /\ \A w \in Workers :
          /\ ai_text_to_speak'[w] # ai_text_to_speak[w]
               => pc[w] \in {"stream", "tts"}
          /\ (pc[w] = "stream" /\ pc'[w] = "tts")
               => ai_text_to_speak'[w] = clean_text_for_tts(Strip(full_response))]_vars

\* a worker is about to synthesize the text of a turn
C27_Witness ==
  \E w \in Workers :
    /\ pc[w] = "tts"
    /\ calls[w] = SubSeq(TurnCalls, 1, 3)
    /\ ai_text_to_speak[w] # <<>>
    /\ Len(events[w]) >= 2

\* C28: with requests handled one after another, a turn that goes on from the
\* transcription empties full_response whatever an earlier turn left in it;
\* full_response stays empty until the stream of the turn starts, and while the
\* stream runs it holds the fragments of that stream alone (nothing when the
\* stream has delivered none); and the text the turn goes on to synthesize is the
\* sanitized text of these fragments, a turn whose stream ends with none being
\* answered without synthesis.
C28_NoResidue ==
  [][\A w \in Workers :
       /\ pc'[w] \in {"append", "run"} => full_response' = <<>>
       /\ pc'[w] = "stream" => full_response' = OwnReply(events'[w])
       /\ (pc[w] = "stream" /\ pc'[w] = "tts")
            => ai_text_to_speak'[w] = clean_text_for_tts(Strip(OwnReply(events[w])))
       /\ (pc[w] = "stream" /\ pc'[w] = "idle" /\ ~done'.raised)
            => /\ clean_text_for_tts(Strip(OwnReply(events[w]))) = <<>>
               /\ done'.resp.body # "bytes"
               /\ ~Called("edge_tts", done'.calls)]_vars

\* a turn has started while full_response still holds the text an earlier turn
\* accumulated
C28_Witness ==
  /\ ~threaded
  /\ pc["w1"] = "transcribe"
  /\ Strip(req["w1"].said) # <<>>
  /\ full_response # <<>>
  /\ ComponentsReady

\* C29: with requests handled one after another, no step taken while the session
\* is Ready changes the flag, the client, the vector store, the assistant or the
\* thread; and while the session is Ready all of them are set.
C29_ReadyAbsorbing ==
  [][SessionReady =>
       /\ UNCHANGED session
       /\ vector_store # None /\ assistant # None /\ thread # None]_vars

\* the session made Ready by the first request is as that request left it after
\* two more requests, the last an initialize request with another key
C29_Witness ==
  /\ ~threaded
  /\ nReq = 3
  /\ done.req.kind = "initialize"
  /\ done.req.api_key = ApiKey(3)
  /\ done.resp = Json(200, "AI components already initialized")
  /\ SessionReady
  /\ client = ApiKey(1)
  /\ thread = 1
  /\ full_response # <<>>

\* the step is taken by a worker that handles an initialize request
InitializeStep ==
  \E w \in Workers : req[w].kind = "initialize" /\ pc'[w] # pc[w]

\* C30: with initialize requests handled by concurrent threads, in every state in
\* which the flag is true the client, the assistant and the thread are set; and no
\* step of an initialize request taken while the flag is true clears the flag or
\* changes the client, the vector store, the assistant or the thread, unless it is
\* the step in which that request creates its thread.
C30_ReadyUnderConcurrentInit ==
  [][/\ ai_initialized_successfully'
          => client' # NoClient /\ assistant' # None /\ thread' # None
     /\ (ai_initialized_successfully /\ InitializeStep /\ nThreads' = nThreads)
          => UNCHANGED session]_vars

\* the positions of the text-created events among the events es
CreatedAt(es) == {i \in 1..Len(es) : es[i] = TextCreated}

\* the fragments delivered after the last text-created event of es
AfterLastCreated(es) ==
  LET last == CHOOSE i \in CreatedAt(es) : \A j \in CreatedAt(es) : j <= i
  IN AllFragments(SubSeq(es, last + 1, Len(es)))

\* C31: with requests handled one after another, when a stream in which a text was
\* created more than once is done without raising, the reply read for the
\* sanitizer is made of the fragments delivered after the last text-created event
\* alone, and the text the turn goes on to synthesize is the sanitized text of
\* these.
C31_OnlyAfterLastCreated ==
  [][\A w \in Workers :
       (/\ pc[w] = "stream"
        /\ pc'[w] \in {"tts", "idle"}
        /\ ~done'.raised
        /\ Cardinality(CreatedAt(events[w])) >= 2)
       => /\ full_response = AfterLastCreated(events[w])
          /\ IF clean_text_for_tts(Strip(AfterLastCreated(events[w]))) = <<>>
               THEN pc'[w] = "idle" /\ ~Called("edge_tts", done'.calls)
               ELSE /\ pc'[w] = "tts"
                    /\ ai_text_to_speak'[w]
                         = clean_text_for_tts(Strip(AfterLastCreated(events[w])))]_vars

\* a stream created a text, delivered a fragment, and created a text again: the
\* fragment is gone from full_response
C31_Witness ==
  /\ ~threaded
  /\ \E w \in Workers :
       /\ pc[w] = "stream"
       /\ Len(events[w]) = 3
       /\ events[w][1] = TextCreated
       /\ events[w][2] # TextCreated
       /\ AllFragments(events[w]) # <<>>
       /\ events[w][3] = TextCreated
       /\ full_response = <<>>

\* the upload call, when there is one among the calls cs, follows at once the
\* creation of a vector store, and there is one at most
UploadFollowsCreate(cs) ==
  /\ CountCalls("file_batches.upload_and_poll", cs) <= 1
  /\ \A i \in 1..Len(cs) :
       cs[i] = "file_batches.upload_and_poll"
         => i > 1 /\ cs[i - 1] = "vector_stores.create"

\* C32: a worker comes to the upload from the creation of a vector store alone, in
\* the step in which the store is created; the worker that finds a store of the
\* expected name goes on to the persona, whether or not the store holds the
\* document; the set of stores that hold the document changes only in the upload
\* step of a worker whose last call created a store; and in the calls of every
\* attempt, in flight or answered, the upload follows the creation at once.
C32_UploadOnlyOnCreate ==
  [][/\ \A w \in Workers :
          /\ (/\ pc'[w] \in {"upload", "upload_failed"}
              /\ pc[w] \notin {"upload", "upload_failed"})
               => /\ pc[w] = "vs_create"
                  /\ pc'[w] = "upload"
                  /\ fileExists
                  /\ Len(upStores') = Len(upStores) + 1
          /\ (/\ pc[w] = "vs_list"
              /\ upStores # <<>>
              /\ pc'[w] \notin {"vs_list", "set_flag"})
               => pc'[w] = "asst_list" /\ UNCHANGED <<upStores, indexed>>
          /\ UploadFollowsCreate(calls'[w])
     /\ indexed' # indexed
          => \E w \in Workers :
               /\ pc[w] = "upload"
               /\ LastCall(calls[w]) = "vector_stores.create"
               /\ indexed' = indexed \cup {vector_store}
     /\ UploadFollowsCreate(done'.calls)]_vars

\* an attempt found the store that the first attempt had created and not filled,
\* and went on to succeed without an upload call: the store still holds no document
C32_Witness ==
  /\ threaded
  /\ nReq = 2
  /\ \A w \in Workers : pc[w] = "idle"
  /\ done.req.kind = "initialize"
  /\ done.resp = Json(200, "AI initialized successfully")
  /\ Called("vector_stores.list", done.calls)
  /\ ~Called("vector_stores.create", done.calls)
  /\ ~Called("file_batches.upload_and_poll", done.calls)
  /\ upStores = <<1>>
  /\ vector_store = 1
  /\ indexed = {}

====
